---- MODULE Spec2Model ----
(***************************************************************************)
(* Model of the DB-backed virtual filesystem commands of heimdal           *)
(* (cmdFSMakeDir, cmdFSNewFile, cmdFSAppend, cmdFSRemove, cmdFSMove,       *)
(* cmdFSCat, cmdFSList) over the SQLite schema v1.                         *)
(*                                                                         *)
(* Text values (paths, notes, tags, line contents) are sequences of        *)
(* one-character strings, so that trimming, splitting, prefix tests and    *)
(* the SQL LIKE operator are computed the way the code computes them.      *)
(* Every call of runSQLiteExec / runSQLiteQuery starts its own sqlite3     *)
(* process, so every SQL statement is its own (autocommitted) step.        *)
(***************************************************************************)
EXTENDS Integers, Sequences, FiniteSets, TLC

VARIABLES db, inv, last, pre, obs

vars == <<db, inv, last, pre, obs>>

(***************************************************************************)
(* Bounds of the model.                                                    *)
(***************************************************************************)
MaxId == 3
MaxLines == 3
MaxTags == 1
MaxTextLen == 1
MaxMetaLen == 4

(***************************************************************************)
(* Text helpers (Go strings / path/filepath, SQLite text operators).       *)
(***************************************************************************)
NULL == <<"NULL">>

Coalesce(v) == IF v = NULL THEN <<>> ELSE v

Max(S) == CHOOSE m \in S : \A k \in S : k <= m

DropFirst(s, k) == SubSeq(s, k + 1, Len(s))

HasPrefix(s, p) == Len(p) <= Len(s) /\ SubSeq(s, 1, Len(p)) = p

TrimPrefix(s, p) == IF HasPrefix(s, p) THEN DropFirst(s, Len(p)) ELSE s

RECURSIVE TrimLeft(_, _)
TrimLeft(s, cs) ==
    IF s # <<>> /\ Head(s) \in cs THEN TrimLeft(Tail(s), cs) ELSE s

RECURSIVE TrimRight(_, _)
TrimRight(s, cs) ==
    IF s # <<>> /\ s[Len(s)] \in cs THEN TrimRight(SubSeq(s, 1, Len(s) - 1), cs) ELSE s

Trim(s, cs) == TrimRight(TrimLeft(s, cs), cs)

TrimSpace(s) == Trim(s, {" ", "\n"})

TrimSlash(s) == Trim(s, {"/"})

RECURSIVE SplitAcc(_, _, _)
SplitAcc(s, sep, cur) ==
    IF s = <<>> THEN <<cur>>
    ELSE IF Head(s) = sep THEN <<cur>> \o SplitAcc(Tail(s), sep, <<>>)
    ELSE SplitAcc(Tail(s), sep, Append(cur, Head(s)))

Split(s, sep) == SplitAcc(s, sep, <<>>)

RECURSIVE Join(_, _)
Join(parts, sep) ==
    IF parts = <<>> THEN <<>>
    ELSE IF Len(parts) = 1 THEN parts[1]
    ELSE parts[1] \o <<sep>> \o Join(Tail(parts), sep)

LastIndexOf(s, c) ==
    LET I == {i \in 1..Len(s) : s[i] = c} IN IF I = {} THEN 0 ELSE Max(I)

\* strings.LastIndex(body, "::"): 1-based start of the last "::", 0 if none
LastIndex2(s) ==
    LET I == {i \in 1..(Len(s) - 1) : s[i] = ":" /\ s[i + 1] = ":"}
    IN  IF I = {} THEN 0 ELSE Max(I)

RECURSIVE CleanElems(_, _, _)
CleanElems(elems, rooted, out) ==
    IF elems = <<>> THEN out
    ELSE LET e == Head(elems) IN
         IF e = <<>> \/ e = <<".">> THEN CleanElems(Tail(elems), rooted, out)
         ELSE IF e = <<".", ".">> THEN
              IF out # <<>> /\ out[Len(out)] # <<".", ".">>
              THEN CleanElems(Tail(elems), rooted, SubSeq(out, 1, Len(out) - 1))
              ELSE IF rooted THEN CleanElems(Tail(elems), rooted, out)
              ELSE CleanElems(Tail(elems), rooted, Append(out, e))
         ELSE CleanElems(Tail(elems), rooted, Append(out, e))

\* filepath.Clean
Clean(p) ==
    IF p = <<>> THEN <<".">>
    ELSE LET rooted == Head(p) = "/"
             body == Join(CleanElems(Split(p, "/"), rooted, <<>>), "/")
         IN  IF rooted THEN <<"/">> \o body
             ELSE IF body = <<>> THEN <<".">> ELSE body

\* filepath.Dir
Dir(p) == Clean(SubSeq(p, 1, LastIndexOf(p, "/")))

\* filepath.Base
Base(p) ==
    IF p = <<>> THEN <<".">>
    ELSE LET q == TrimRight(p, {"/"}) IN
         IF q = <<>> THEN <<"/">>
         ELSE DropFirst(q, LastIndexOf(q, "/"))

\* ASCII case folding used by SQLite's LIKE
Lower(c) ==
    IF c = "A" THEN "a" ELSE IF c = "B" THEN "b" ELSE IF c = "X" THEN "x" ELSE c

\* SQLite: s LIKE pat ('%' any run, '_' any one character, ASCII letters
\* compared without case)
RECURSIVE Like(_, _)
Like(s, pat) ==
    IF pat = <<>> THEN s = <<>>
    ELSE IF Head(pat) = "%"
         THEN \E k \in 0..Len(s) : Like(DropFirst(s, k), Tail(pat))
    ELSE IF s = <<>> THEN FALSE
    ELSE (Head(pat) = "_" \/ Lower(Head(pat)) = Lower(Head(s)))
         /\ Like(Tail(s), Tail(pat))

\* WHERE (path='p' OR path LIKE 'p/%')
UnderPrefix(path, p) == path = p \/ Like(path, p \o <<"/", "%">>)

RECURSIVE TagList(_)
TagList(parts) ==
    IF parts = <<>> THEN <<>>
    ELSE LET p == TrimSpace(Head(parts)) IN
         IF p # <<>> THEN <<p>> \o TagList(Tail(parts)) ELSE TagList(Tail(parts))

parseMetaKeepsRest(s0) ==
    LET s == TrimSpace(s0) IN
    IF HasPrefix(s, <<"/", "/">>)
    THEN [tags |-> <<>>, note |-> TrimSpace(DropFirst(s, 2)), aicom |-> <<>>]
    ELSE IF HasPrefix(s, <<"@", "@">>)
         THEN [tags |-> TagList(Split(TrimSpace(DropFirst(s, 2)), ",")),
               note |-> TrimSpace(DropFirst(s, 2)), aicom |-> <<>>]
    ELSE IF HasPrefix(s, <<":", ":">>)
         THEN [tags |-> <<>>, note |-> <<>>, aicom |-> TrimSpace(DropFirst(s, 2))]
    ELSE [tags |-> <<>>, note |-> <<>>, aicom |-> <<>>]

parseMeta(s0) ==
    LET s == TrimSpace(s0) IN
    IF s = <<>> THEN [tags |-> <<>>, note |-> <<>>, aicom |-> <<>>]
    ELSE IF HasPrefix(s, <<"/", "/">>)
         THEN [tags |-> <<>>, note |-> TrimSpace(DropFirst(s, 2)), aicom |-> <<>>]
    ELSE IF HasPrefix(s, <<"@", "@">>)
         THEN [tags |-> TagList(Split(TrimSpace(DropFirst(s, 2)), ",")),
               note |-> <<>>, aicom |-> <<>>]
    ELSE IF HasPrefix(s, <<":", ":">>)
         THEN LET body == DropFirst(s, 2)
                  i == LastIndex2(body)
              IN  [tags |-> <<>>, note |-> <<>>,
                   aicom |-> TrimSpace(IF i > 0 THEN SubSeq(body, 1, i - 1) ELSE body)]
    ELSE [tags |-> <<>>, note |-> <<>>, aicom |-> <<>>]

(***************************************************************************)
(* The store: the tables of schema v1 that the filesystem commands use.    *)
(* created_at columns and the surrogate id of file_lines are not read by   *)
(* any command and are left out.                                           *)
(***************************************************************************)
\* projectBundleDirFromDB(db) of the bundle store <dir>/project.sqlite
BundleDir == <<"P">>

\* the stores: a bundle <dir>/project.sqlite and a legacy single file
ProjectSqlite ==
    <<"/", "p", "r", "o", "j", "e", "c", "t", ".", "s", "q", "l", "i", "t", "e">>
BundleDB == <<"P">> \o ProjectSqlite
LegacyDB == <<"V", "/", "n", ".", "s", "q", "l", "i", "t", "e">>

HasSuffix(s, t) == Len(t) <= Len(s) /\ SubSeq(s, Len(s) - Len(t) + 1, Len(s)) = t

projectBundleDirFromDB(dbPath) ==
    IF HasSuffix(dbPath, ProjectSqlite) THEN Dir(dbPath) ELSE <<>>

\* root := projectBundleDirFromDB(db); if root == "" { root, _ = os.Getwd() }
ProjRoot(dbPath, cwd) ==
    IF projectBundleDirFromDB(dbPath) = <<>> THEN cwd ELSE projectBundleDirFromDB(dbPath)

NextId(rows) == IF rows = {} THEN 1 ELSE Max({r.id : r \in rows}) + 1

Res(d, e) == [db |-> d, err |-> e]

\* projects.root UNIQUE
UniqueRootOK(projects, root) == ~\E r \in projects : r.root = root

UniquePathUnchecked(files, pid, path, selfId) == TRUE

\* files: UNIQUE(project_id, path)
UniquePathOK(files, pid, path, selfId) ==
    ~\E r \in files : r.project_id = pid /\ r.path = path /\ r.id # selfId

\* file_lines: UNIQUE(file_id, lineno)
UniqueLineOK(lines, fid, n) == ~\E l \in lines : l.file_id = fid /\ l.lineno = n

\* INSERT OR IGNORE INTO projects(root, created_at) VALUES (root, now)
InsertOrIgnoreProject(d, root) ==
    IF UniqueRootOK(d.projects, root)
    THEN [d EXCEPT !.projects = @ \cup {[id |-> NextId(d.projects), root |-> root]}]
    ELSE d

\* SELECT id FROM projects WHERE root=...   (0 when no row)
SelectProjectId(d, root) ==
    IF \E r \in d.projects : r.root = root
    THEN (CHOOSE r \in d.projects : r.root = root).id
    ELSE 0

InsertFileAlways(d, pid, path, name, type, note, aicom) ==
    [d EXCEPT !.files = @ \cup
        {[id |-> NextId(d.files), project_id |-> pid, path |-> path,
          name |-> name, type |-> type, note |-> note, aicom |-> aicom]}]

\* INSERT OR IGNORE INTO files(project_id,path,name,type[,note,aicom],created_at)
InsertOrIgnoreFile(d, pid, path, name, type, note, aicom) ==
    IF UniquePathOK(d.files, pid, path, 0)
    THEN [d EXCEPT !.files = @ \cup
            {[id |-> NextId(d.files), project_id |-> pid, path |-> path,
              name |-> name, type |-> type, note |-> note, aicom |-> aicom]}]
    ELSE d

\* UPDATE files SET note=COALESCE(note,'')||note, aicom=COALESCE(aicom,'')||'\n'||aicom
\*   WHERE project_id=pid AND path=path
UpdateEntryMeta(d, pid, path, note, aicom) ==
    [d EXCEPT !.files =
        {IF r.project_id = pid /\ r.path = path
         THEN [r EXCEPT !.note = Coalesce(@) \o note,
                        !.aicom = Coalesce(@) \o <<"\n">> \o aicom]
         ELSE r : r \in @}]

\* INSERT INTO file_tags(file_id, tag) VALUES (fid, tag)
InsertTag(d, fid, tag) ==
    [d EXCEPT !.file_tags = @ \cup {[id |-> NextId(@), file_id |-> fid, tag |-> tag]}]

\* INSERT INTO file_tags(file_id, tag) SELECT id, tag FROM files WHERE project_id AND path
InsertTagByPath(d, pid, path, tag) ==
    IF \E r \in d.files : r.project_id = pid /\ r.path = path
    THEN InsertTag(d, (CHOOSE r \in d.files : r.project_id = pid /\ r.path = path).id, tag)
    ELSE d

\* INSERT INTO file_lines(file_id, lineno, content) SELECT id, 1, content FROM files WHERE ...
InsertLine1ByPath(d, pid, path, content) ==
    IF \E r \in d.files : r.project_id = pid /\ r.path = path
    THEN LET fid == (CHOOSE r \in d.files : r.project_id = pid /\ r.path = path).id IN
         IF UniqueLineOK(d.file_lines, fid, 1)
         THEN Res([d EXCEPT !.file_lines = @ \cup
                    {[file_id |-> fid, lineno |-> 1, content |-> content,
                      side |-> NULL, aicom |-> NULL]}], FALSE)
         ELSE Res(d, TRUE)
    ELSE Res(d, FALSE)

\* SELECT type FROM files WHERE project_id=pid AND path=path   (<<>> when no row)
SelectType(d, pid, path) ==
    IF \E r \in d.files : r.project_id = pid /\ r.path = path
    THEN (CHOOSE r \in d.files : r.project_id = pid /\ r.path = path).type
    ELSE ""

getFileIDAnyType(d, pid, path) ==
    IF \E r \in d.files : r.project_id = pid /\ r.path = path
    THEN (CHOOSE r \in d.files : r.project_id = pid /\ r.path = path).id
    ELSE 0

\* SELECT id FROM files WHERE project_id AND path AND type='file'   (0 when no row)
getFileID(d, pid, path) ==
    IF \E r \in d.files : r.project_id = pid /\ r.path = path /\ r.type = "file"
    THEN (CHOOSE r \in d.files : r.project_id = pid /\ r.path = path /\ r.type = "file").id
    ELSE 0

NextLineNoByCount(lines, fid) == Cardinality({m \in lines : m.file_id = fid}) + 1

\* COALESCE(MAX(lineno)+1,1) FROM file_lines WHERE file_id=fid
NextLineNo(lines, fid) ==
    LET N == {l.lineno : l \in {m \in lines : m.file_id = fid}}
    IN  IF N = {} THEN 1 ELSE Max(N) + 1

AppendLineReplacing(d, fid, text) ==
    LET N == {l.lineno : l \in {m \in d.file_lines : m.file_id = fid}}
        n == IF N = {} THEN 1 ELSE Max(N)
    IN  Res([d EXCEPT !.file_lines =
               {l \in @ : ~(l.file_id = fid /\ l.lineno = n)} \cup
               {[file_id |-> fid, lineno |-> n, content |-> text,
                 side |-> NULL, aicom |-> NULL]}], FALSE)

\* INSERT INTO file_lines(file_id, lineno, content) SELECT fid, COALESCE(MAX(lineno)+1,1), text ...
AppendLine(d, fid, text) ==
    LET n == NextLineNo(d.file_lines, fid) IN
    IF UniqueLineOK(d.file_lines, fid, n)
    THEN Res([d EXCEPT !.file_lines = @ \cup
               {[file_id |-> fid, lineno |-> n, content |-> text,
                 side |-> NULL, aicom |-> NULL]}], FALSE)
    ELSE Res(d, TRUE)

\* the integer SQLite reads from the decimal digits of --line N
RECURSIVE SqlInt(_)
SqlInt(s) ==
    IF s = <<>> THEN 0
    ELSE LET c == s[Len(s)]
             v == IF c = "1" THEN 1 ELSE IF c = "2" THEN 2 ELSE IF c = "3" THEN 3
                  ELSE IF c = "4" THEN 4 ELSE IF c = "5" THEN 5 ELSE IF c = "6" THEN 6
                  ELSE IF c = "7" THEN 7 ELSE IF c = "8" THEN 8 ELSE IF c = "9" THEN 9
                  ELSE 0
         IN  10 * SqlInt(SubSeq(s, 1, Len(s) - 1)) + v

InsertLineSkipped(d, fid, n) == d

\* INSERT OR IGNORE INTO file_lines(file_id, lineno, content) VALUES (fid, n, '')
InsertOrIgnoreLine(d, fid, n) ==
    IF UniqueLineOK(d.file_lines, fid, n)
    THEN [d EXCEPT !.file_lines = @ \cup
            {[file_id |-> fid, lineno |-> n, content |-> <<>>,
              side |-> NULL, aicom |-> NULL]}]
    ELSE d

UpdateLineMetaWholeFile(d, fid, n, note, aicom) ==
    [d EXCEPT !.file_lines =
        {IF l.file_id = fid
         THEN [l EXCEPT !.side = IF note # <<>> THEN note ELSE @,
                        !.aicom = IF aicom # <<>> THEN aicom ELSE @]
         ELSE l : l \in @}]

\* UPDATE file_lines SET side=note, aicom=aicom WHERE file_id=fid AND lineno=n
\* (a column is in the SET list only when its value is not empty)
UpdateLineMeta(d, fid, n, note, aicom) ==
    [d EXCEPT !.file_lines =
        {IF l.file_id = fid /\ l.lineno = n
         THEN [l EXCEPT !.side = IF note # <<>> THEN note ELSE @,
                        !.aicom = IF aicom # <<>> THEN aicom ELSE @]
         ELSE l : l \in @}]

IdsExactAnyProject(d, pid, path) ==
    {r.id : r \in {q \in d.files : q.path = path}}

\* ids selected by  SELECT id FROM files WHERE project_id=pid AND path=path
IdsExact(d, pid, path) ==
    {r.id : r \in {q \in d.files : q.project_id = pid /\ q.path = path}}

IdsUnderExactOnly(d, pid, p) == IdsExact(d, pid, p)

\* ids selected by  SELECT id FROM files WHERE project_id=pid AND (path=p OR path LIKE 'p/%')
IdsUnder(d, pid, p) ==
    {r.id : r \in {q \in d.files : q.project_id = pid /\ UnderPrefix(q.path, p)}}

\* DELETE FROM file_lines WHERE file_id IN (ids)
DeleteLines(d, ids) == [d EXCEPT !.file_lines = {l \in @ : l.file_id \notin ids}]

\* DELETE FROM file_tags WHERE file_id IN (ids)
DeleteTags(d, ids) == [d EXCEPT !.file_tags = {t \in @ : t.file_id \notin ids}]

\* DELETE FROM files WHERE project_id=pid AND path ... (rows with these ids)
DeleteFiles(d, ids) == [d EXCEPT !.files = {r \in @ : r.id \notin ids}]

\* UPDATE files SET path=newp, name=name WHERE id=id
UpdatePathById(d, id, newp, name) ==
    IF \E r \in d.files : r.id = id
    THEN LET row == CHOOSE r \in d.files : r.id = id IN
         IF UniquePathOK(d.files, row.project_id, newp, id)
         THEN Res([d EXCEPT !.files = (@ \ {row}) \cup
                     {[row EXCEPT !.path = newp, !.name = name]}], FALSE)
         ELSE Res(d, TRUE)
    ELSE Res(d, FALSE)

\* UPDATE files SET path=dst, name=name WHERE project_id=pid AND path=src
UpdatePathByPath(d, pid, src, dst, name) ==
    IF IdsExact(d, pid, src) = {} THEN Res(d, FALSE)
    ELSE UpdatePathById(d, CHOOSE i \in IdsExact(d, pid, src) : TRUE, dst, name)

\* All results of  SELECT id, path ... WHERE (path=src OR path LIKE 'src/%')
\* ORDER BY LENGTH(path): rows of equal length come in any order.
SubtreeOrders(d, pid, src) ==
    LET rows == {<<r.id, r.path>> : r \in {q \in d.files : q.project_id = pid /\ UnderPrefix(q.path, src)}}
        n == Cardinality(rows)
    IN  {s \in [1..n -> rows] :
            /\ \A i, j \in 1..n : i # j => s[i] # s[j]
            /\ \A i, j \in 1..n : i < j => Len(s[i][2]) <= Len(s[j][2])}

RECURSIVE ContentsAsc(_)
ContentsAsc(L) ==
    IF L = {} THEN <<>>
    ELSE LET l == CHOOSE m \in L : \A o \in L : m.lineno <= o.lineno
         IN  <<l.content>> \o ContentsAsc(L \ {l})

RECURSIVE ContentsDesc(_)
ContentsDesc(L) ==
    IF L = {} THEN <<>>
    ELSE LET l == CHOOSE m \in L : \A o \in L : m.lineno >= o.lineno
         IN  <<l.content>> \o ContentsDesc(L \ {l})

ReadLinesDesc(lines, fid) == ContentsDesc({l \in lines : l.file_id = fid})

\* SELECT content FROM file_lines WHERE file_id=fid ORDER BY lineno
ReadLines(lines, fid) == ContentsAsc({l \in lines : l.file_id = fid})

(***************************************************************************)
(* One invocation of a command.  pc names the sqlite3 call that comes      *)
(* next; Step performs exactly that call.  fail = k > 0 makes the k-th     *)
(* sqlite3 call of the invocation return an error (sqlite3 missing, disk   *)
(* error, ...), fail = 0 never.                                            *)
(***************************************************************************)
NoMeta == [tags |-> <<>>, note |-> <<>>, aicom |-> <<>>]

Idle ==
    [op |-> "none", pc |-> "done", res |-> "ok", path |-> <<>>, dst |-> <<>>,
     rec |-> FALSE, meta |-> NoMeta, content |-> <<>>, root |-> <<>>, fail |-> 0,
     inner |-> FALSE, pid |-> 0, fid |-> 0, comps |-> <<>>, ci |-> 0, cur |-> <<>>,
     ti |-> 0, rows |-> <<>>, ri |-> 0, line |-> <<>>, failed |-> FALSE, wrote |-> FALSE]

NewInv(op, path, dst, rec, metaStr, content, root, fail) ==
    [Idle EXCEPT !.op = op, !.pc = "ensure_ins", !.res = "run", !.path = path,
                 !.dst = dst, !.rec = rec, !.meta = parseMeta(metaStr),
                 !.content = content, !.root = root, !.fail = fail]

Done(v, r) == [v EXCEPT !.pc = "done", !.res = r]

\* an error return; the one inside newfile's call of cmdFSMakeDir is dropped
Err(v, e) ==
    IF v.inner THEN [v EXCEPT !.inner = FALSE, !.pc = "file_ins"] ELSE Done(v, e)

\* return of cmdFSMakeDir with "ok"
MkEnd(v) ==
    IF v.inner THEN [v EXCEPT !.inner = FALSE, !.pc = "file_ins"] ELSE Done(v, "ok")

MkMetaOfCaller(v) == v.meta

\* the metadata cmdFSMakeDir parsed from its own arguments
MkMeta(v) == IF v.inner THEN NoMeta ELSE v.meta

\* for i, c := range comps { if c == "" { continue } ... }
NextComp(v) ==
    LET J == {j \in (v.ci + 1)..Len(v.comps) : v.comps[j] # <<>>} IN
    IF J = {} THEN MkEnd(v)
    ELSE LET j == CHOOSE x \in J : \A y \in J : x <= y IN
         [v EXCEPT !.ci = j, !.pc = "dir_ins",
                   !.cur = IF @ = <<>> THEN v.comps[j] ELSE @ \o <<"/">> \o v.comps[j]]

StartMkdir(v, p) ==
    NextComp([v EXCEPT !.comps = Split(TrimSlash(p), "/"), !.ci = 0, !.cur = <<>>])

NeedsParent(path) == Dir(path) # <<".">> /\ Dir(path) # <<>>

AfterEnsure(v) ==
    IF v.inner THEN StartMkdir(v, Dir(v.path))
    ELSE IF v.op = "mkdir" THEN StartMkdir(v, v.path)
    ELSE IF v.op = "newfile" THEN
         IF NeedsParent(v.path) THEN [v EXCEPT !.inner = TRUE, !.pc = "ensure_ins"]
         ELSE [v EXCEPT !.pc = "file_ins"]
    ELSE IF v.op \in {"append", "annotate", "cat"} THEN [v EXCEPT !.pc = "getfid"]
    ELSE IF v.op = "ls" THEN [v EXCEPT !.pc = "ls_rows"]
    ELSE IF v.op = "rm" THEN [v EXCEPT !.pc = "rm_sel"]
    ELSE [v EXCEPT !.pc = "mv_sel"]

AfterFileTags(v) ==
    IF v.content # <<>> THEN [v EXCEPT !.pc = "file_line"] ELSE Done(v, "ok")

\* new path of one row of a directory move
MovedPath(oldp, src, dst) ==
    IF oldp = src THEN dst
    ELSE LET t0 == TrimPrefix(oldp, src)
             tail == IF HasPrefix(t0, <<"/">>) THEN DropFirst(t0, 1) ELSE t0
         IN  IF tail = <<>> THEN dst ELSE dst \o <<"/">> \o tail

St(d, v) == [db |-> d, inv |-> v]

RemoveRefusedNever(typ, recursive) == FALSE

\* if typ == "dir" && !recursive { return errors.New("is a directory; ...") }
RemoveRefused(typ, recursive) == typ = "dir" /\ ~recursive

Exec(d, v, ord) ==
    LET m == MkMeta(v)
        applyMeta == v.ci = Len(v.comps)
        p == TrimSlash(v.path)
    IN
    CASE v.pc = "ensure_ins" ->
            St(InsertOrIgnoreProject(d, v.root), [v EXCEPT !.pc = "ensure_sel"])
      [] v.pc = "ensure_sel" ->
            LET id == SelectProjectId(d, v.root) IN
            IF id = 0 THEN St(d, Err(v, "noproject"))
            ELSE St(d, AfterEnsure([v EXCEPT !.pid = id]))
      [] v.pc = "dir_ins" ->
            St(InsertOrIgnoreFile(d, v.pid, TrimSlash(v.cur), v.comps[v.ci], "dir", NULL, NULL),
               IF applyMeta /\ (m.note # <<>> \/ m.aicom # <<>>) THEN [v EXCEPT !.pc = "dir_upd"]
               ELSE IF applyMeta /\ m.tags # <<>> THEN [v EXCEPT !.pc = "dir_tag", !.ti = 1]
               ELSE NextComp(v))
      [] v.pc = "dir_upd" ->
            St(UpdateEntryMeta(d, v.pid, TrimSlash(v.cur), m.note, m.aicom),
               IF m.tags # <<>> THEN [v EXCEPT !.pc = "dir_tag", !.ti = 1] ELSE NextComp(v))
      [] v.pc = "dir_tag" ->
            St(InsertTagByPath(d, v.pid, TrimSlash(v.cur), m.tags[v.ti]),
               IF v.ti < Len(m.tags) THEN [v EXCEPT !.ti = @ + 1] ELSE NextComp(v))
      [] v.pc = "file_ins" ->
            St(InsertOrIgnoreFile(d, v.pid, p, Base(v.path), "file", v.meta.note, v.meta.aicom),
               IF v.meta.tags # <<>> THEN [v EXCEPT !.pc = "file_tag", !.ti = 1]
               ELSE AfterFileTags(v))
      [] v.pc = "file_tag" ->
            St(InsertTagByPath(d, v.pid, p, v.meta.tags[v.ti]),
               IF v.ti < Len(v.meta.tags) THEN [v EXCEPT !.ti = @ + 1] ELSE AfterFileTags(v))
      [] v.pc = "file_line" ->
            LET r == InsertLine1ByPath(d, v.pid, p, v.content) IN
            St(r.db, IF r.err THEN Done(v, "constraint") ELSE Done(v, "ok"))
      [] v.pc = "getfid" ->
            LET id == getFileID(d, v.pid, p) IN
            IF id = 0 THEN St(d, Done(v, "notfound"))
            ELSE St(d, [v EXCEPT !.fid = id,
                                 !.pc = IF v.op = "annotate" THEN "ann_ins"
                                        ELSE IF v.op = "cat" THEN "cat_rows"
                                        ELSE "app_ins"])
      [] v.pc = "app_ins" ->
            LET r == AppendLine(d, v.fid, v.content) IN
            St(r.db, IF r.err THEN Done(v, "constraint") ELSE Done(v, "ok"))
      [] v.pc = "ann_ins" ->
            St(InsertOrIgnoreLine(d, v.fid, SqlInt(v.line)),
               IF v.meta.note # <<>> \/ v.meta.aicom # <<>> THEN [v EXCEPT !.pc = "ann_upd"]
               ELSE IF v.meta.tags # <<>> THEN [v EXCEPT !.pc = "ann_tag", !.ti = 1]
               ELSE Done(v, "ok"))
      [] v.pc = "ann_upd" ->
            St(UpdateLineMeta(d, v.fid, SqlInt(v.line), v.meta.note, v.meta.aicom),
               IF v.meta.tags # <<>> THEN [v EXCEPT !.pc = "ann_tag", !.ti = 1]
               ELSE Done(v, "ok"))
      [] v.pc = "ann_tag" ->
            St(InsertTag(d, v.fid, v.meta.tags[v.ti]),
               IF v.ti < Len(v.meta.tags) THEN [v EXCEPT !.ti = @ + 1] ELSE Done(v, "ok"))
      [] v.pc = "cat_rows" ->
            St(d, Done(v, "ok"))
      [] v.pc = "ls_rows" ->
            St(d, Done(v, "ok"))
      [] v.pc = "rm_sel" ->
            LET typ == SelectType(d, v.pid, p) IN
            IF typ = "" THEN St(d, Done(v, "notfound"))
            ELSE IF RemoveRefused(typ, v.rec) THEN St(d, Done(v, "isdir"))
            ELSE IF typ = "file" THEN St(d, [v EXCEPT !.pc = "del_lines"])
            ELSE St(d, [v EXCEPT !.pc = "rdel_lines"])
      [] v.pc = "del_lines" ->
            St(DeleteLines(d, IdsExact(d, v.pid, p)), [v EXCEPT !.pc = "del_tags"])
      [] v.pc = "del_tags" ->
            St(DeleteTags(d, IdsExact(d, v.pid, p)), [v EXCEPT !.pc = "del_file"])
      [] v.pc = "del_file" ->
            St(DeleteFiles(d, IdsExact(d, v.pid, p)), Done(v, "ok"))
      [] v.pc = "rdel_lines" ->
            St(DeleteLines(d, IdsUnder(d, v.pid, p)), [v EXCEPT !.pc = "rdel_tags"])
      [] v.pc = "rdel_tags" ->
            St(DeleteTags(d, IdsUnder(d, v.pid, p)), [v EXCEPT !.pc = "rdel_files"])
      [] v.pc = "rdel_files" ->
            St(DeleteFiles(d, IdsUnder(d, v.pid, p)), Done(v, "ok"))
      [] v.pc = "mv_sel" ->
            LET typ == SelectType(d, v.pid, p) IN
            IF typ = "" THEN St(d, Done(v, "notfound"))
            ELSE IF typ = "file" THEN St(d, [v EXCEPT !.pc = "mv_file"])
            ELSE St(d, [v EXCEPT !.pc = "mv_rows"])
      [] v.pc = "mv_file" ->
            LET r == UpdatePathByPath(d, v.pid, p, TrimSlash(v.dst), Base(TrimSlash(v.dst))) IN
            St(r.db, IF r.err THEN Done(v, "constraint") ELSE Done(v, "ok"))
      [] v.pc = "mv_rows" ->
            St(d, IF ord = <<>> THEN Done(v, "ok")
                  ELSE [v EXCEPT !.rows = ord, !.ri = 1, !.pc = "mv_upd"])
      [] v.pc = "mv_upd" ->
            LET newp == MovedPath(v.rows[v.ri][2], p, TrimSlash(v.dst))
                r == UpdatePathById(d, v.rows[v.ri][1], newp, Base(newp))
            IN  St(r.db, IF r.err THEN Done(v, "constraint")
                         ELSE IF v.ri < Len(v.rows) THEN [v EXCEPT !.ri = @ + 1]
                         ELSE Done(v, "ok"))
      [] OTHER -> St(d, v)

\* one sqlite3 call of the invocation; failed records that a call returned
\* an error, wrote that a later call of the invocation changed the store
Step(d, v, ord) ==
    IF v.fail = 1 THEN St(d, Err([v EXCEPT !.fail = 0, !.failed = TRUE], "store"))
    ELSE IF v.fail > 1 THEN Exec(d, [v EXCEPT !.fail = @ - 1], ord)
    ELSE IF ~v.failed THEN Exec(d, v, ord)
    ELSE LET s == Exec(d, v, ord)
         IN  IF s.db # d THEN St(s.db, [s.inv EXCEPT !.wrote = TRUE]) ELSE s

\* the invocation run to its return with no other process in between
RECURSIVE RunToEnd(_, _, _)
RunToEnd(d, v, ord) ==
    IF v.pc = "done" THEN St(d, v)
    ELSE LET s == Step(d, v, ord) IN RunToEnd(s.db, s.inv, ord)

(***************************************************************************)
(* Readers: cmdFSCat and cmdFSList.  Neither writes a table of the bundle  *)
(* store (its project row exists since initProjectDB).                     *)
(***************************************************************************)
\* cmdFSCat(path): the record of lines printed, or the error of getFileID
Cat(d, path) ==
    LET pid == SelectProjectId(d, BundleDir)
        fid == getFileID(d, pid, TrimSlash(path))
    IN  IF fid = 0 THEN [err |-> TRUE, lines |-> <<>>]
        ELSE [err |-> FALSE, lines |-> ReadLines(d.file_lines, fid)]

\* cmdFSCat(path) for the project row of root
CatRows(d, root, path) ==
    LET pid == SelectProjectId(d, root)
        fid == getFileID(d, pid, TrimSlash(path))
    IN  IF fid = 0 THEN [err |-> TRUE, lines |-> <<>>]
        ELSE [err |-> FALSE, lines |-> ReadLines(d.file_lines, fid)]

\* the query of cmdFSList for the project row of root
ListRows(d, root, base) ==
    LET pid == SelectProjectId(d, root)
        t == TrimSlash(base)
        like == IF t = <<".">> \/ t = <<>> THEN <<>> ELSE t \o <<"/">>
    IN  {<<r.path, r.name, r.type>> :
            r \in {q \in d.files : q.project_id = pid
                                   /\ (Like(q.path, like \o <<"%">>) \/ q.path = like)}}

\* cmdFSList(base): rows (path, name, type) with path LIKE 'like%' OR path='like'
List(d, base) ==
    LET pid == SelectProjectId(d, BundleDir)
        t == TrimSlash(base)
        like == IF t = <<".">> \/ t = <<>> THEN <<>> ELSE t \o <<"/">>
    IN  {<<r.path, r.name, r.type>> :
            r \in {q \in d.files : q.project_id = pid
                                   /\ (Like(q.path, like \o <<"%">>) \/ q.path = like)}}

(***************************************************************************)
(* Inputs and bounds on the store.                                         *)
(***************************************************************************)
Pa == <<"a">>
Pb == <<"b">>
Pax == <<"a", "/", "x">>
Pab == <<"a", "/", "b">>
Pbx == <<"b", "/", "x">>

Paths == {Pa, Pb, Pax}
MoveSrcs == {Pa, Pax}
MoveDsts == {Pb, Pab, Pbx}

NoteMeta == <<"/", "/", " ", "n">>
TagMeta == <<"@", "@", "t">>

Texts == { <<"y">>, <<"z">> }

TextOK(v) == IF v = NULL THEN TRUE ELSE Len(v) <= MaxTextLen

WithinBounds(d) ==
    /\ Cardinality(d.file_lines) <= MaxLines
    /\ Cardinality(d.file_tags) <= MaxTags
    /\ \A t \in d.file_tags : t.id <= MaxTags
    /\ \A r \in d.files : /\ r.id <= MaxId
                          /\ TextOK(r.note)
                          /\ TextOK(r.aicom)

\* what the caller knows of a finished invocation
Summary(v) ==
    [op |-> v.op, path |-> v.path, dst |-> v.dst, rec |-> v.rec, meta |-> v.meta,
     content |-> v.content, res |-> v.res, line |-> v.line, root |-> v.root,
     failed |-> v.failed, wrote |-> v.wrote]

\* the possible results of the directory-move row query of invocation v
OrdersFor(d, v) ==
    IF v.op = "mv"
    THEN SubtreeOrders(d, SelectProjectId(InsertOrIgnoreProject(d, v.root), v.root),
                       TrimSlash(v.path))
    ELSE {<<>>}

Procs == {1, 2}

AllIdle == \A w \in Procs : inv[w].pc = "done"

(***************************************************************************)
(* Sequential use: one invocation at a time, each run from its first       *)
(* sqlite3 call to its return.                                             *)
(***************************************************************************)
Invoke(v) ==
    /\ AllIdle
    /\ \E ord \in OrdersFor(db, v) :
         LET r == RunToEnd(db, v, ord) IN
         /\ WithinBounds(r.db)
         /\ db' = r.db
         /\ last' = Summary(r.inv)
    /\ pre' = db
    /\ UNCHANGED <<inv, obs>>

cmdFSMakeDir(path, meta) ==
    Invoke(NewInv("mkdir", path, <<>>, FALSE, meta, <<>>, BundleDir, 0))

cmdFSNewFile(path, meta, content) ==
    Invoke(NewInv("newfile", path, <<>>, FALSE, meta, content, BundleDir, 0))

\* if len(filtered) < 1 || text == "" { usage; return nil }
cmdFSAppend(path, text) ==
    /\ text # <<>>
    /\ Invoke(NewInv("append", path, <<>>, FALSE, <<>>, text, BundleDir, 0))

cmdFSRemove(path, recursive) ==
    Invoke(NewInv("rm", path, <<>>, recursive, <<>>, <<>>, BundleDir, 0))

cmdFSMove(src, dst) ==
    Invoke(NewInv("mv", src, dst, FALSE, <<>>, <<>>, BundleDir, 0))

\* if len(filtered) < 2 || lineNumStr == "" { usage; return nil }
cmdFSAnnotate(path, line, meta) ==
    LET v == [NewInv("annotate", path, <<>>, FALSE, meta, <<>>, BundleDir, 0)
                 EXCEPT !.line = line]
    IN  Invoke(IF line = <<>> THEN Done(v, "usage") ELSE v)

\* the rows cmdFSList prints are List(db, base)
cmdFSList(base) ==
    Invoke(NewInv("ls", base, <<>>, FALSE, <<>>, <<>>, BundleDir, 0))

\* the lines cmdFSCat prints are Cat(db, path).lines
cmdFSCat(path) ==
    Invoke(NewInv("cat", path, <<>>, FALSE, <<>>, <<>>, BundleDir, 0))

NoObs == [kind |-> "none", path |-> <<>>, view |-> <<>>]

\* the store right after initProjectDB
Init ==
    /\ db = [projects |-> {[id |-> 1, root |-> BundleDir]}, files |-> {},
             file_tags |-> {}, file_lines |-> {}]
    /\ inv = [w \in Procs |-> Idle]
    /\ last = Summary(Idle)
    /\ pre = db
    /\ obs = NoObs

\* the directory tree commands, without metadata or content
Next ==
    \/ \E p \in Paths : cmdFSMakeDir(p, <<>>)
    \/ \E p \in Paths : cmdFSNewFile(p, <<>>, <<>>)
    \/ \E p \in Paths, r \in BOOLEAN : cmdFSRemove(p, r)
    \/ \E p \in MoveSrcs, q \in MoveDsts : cmdFSMove(p, q)

Spec == Init /\ [][Next]_vars

\* files with content, tags and notes below one directory
NextContent ==
    \/ \E m \in {<<>>, NoteMeta} : cmdFSMakeDir(Pa, m)
    \/ cmdFSNewFile(Pa, TagMeta, <<"x">>)
    \/ \E m \in {<<>>, TagMeta}, c \in {<<>>, <<"x">>} : cmdFSNewFile(Pax, m, c)
    \/ \E t \in Texts : cmdFSAppend(Pax, t)
    \/ \E p \in {Pa, Pax}, r \in BOOLEAN : cmdFSRemove(p, r)

SpecContent == Init /\ [][NextContent]_vars

SideMeta == <<"/", "/", " ", "s">>
LineNos == {<<"1">>, <<"3">>}

\* one file below one directory: lines, line annotations, listing, reading
NextEdit ==
    \/ cmdFSMakeDir(Pa, <<>>)
    \/ \E m \in {<<>>, NoteMeta}, c \in {<<>>, <<"x">>} : cmdFSNewFile(Pax, m, c)
    \/ \E p \in {Pa, Pax} : cmdFSAppend(p, <<"y">>)
    \/ \E p \in {Pa, Pax}, n \in LineNos \cup {<<>>}, m \in {SideMeta, TagMeta} :
          cmdFSAnnotate(p, n, m)
    \/ \E b \in {<<".">>, Pa, Pax, Pb} : cmdFSList(b)
    \/ \E p \in {Pa, Pax} : cmdFSCat(p)
    \/ cmdFSRemove(Pax, FALSE)

SpecEdit == Init /\ [][NextEdit]_vars

(***************************************************************************)
(* A legacy single-file store: the project row is keyed on the working     *)
(* directory of each command.  The store was initialised in its own        *)
(* directory; commands run there or in another directory (each shell       *)
(* session has its own).                                                   *)
(***************************************************************************)
Cwds == {Dir(LegacyDB), <<"W">>}

InitLegacy ==
    /\ db = [projects |-> {[id |-> 1, root |-> Dir(LegacyDB)]}, files |-> {},
             file_tags |-> {}, file_lines |-> {}]
    /\ inv = [w \in Procs |-> Idle]
    /\ last = Summary(Idle)
    /\ pre = db
    /\ obs = NoObs

\* a command run in working directory cwd with HEIMDAL_PROJECT_DB = LegacyDB
InLegacy(cwd, op, path, rec, content) ==
    /\ op = "append" => content # <<>>
    /\ Invoke(NewInv(op, path, <<>>, rec, <<>>, content, ProjRoot(LegacyDB, cwd), 0))

NextLegacy ==
    \E cwd \in Cwds :
        \/ InLegacy(cwd, "mkdir", Pa, FALSE, <<>>)
        \/ InLegacy(cwd, "newfile", Pax, FALSE, <<"x">>)
        \/ InLegacy(cwd, "append", Pax, FALSE, <<"y">>)
        \/ \E p \in {Pa, Pax} : InLegacy(cwd, "rm", p, TRUE, <<>>)
        \/ \E b \in {<<".">>, Pa} : InLegacy(cwd, "ls", b, FALSE, <<>>)
        \/ InLegacy(cwd, "cat", Pax, FALSE, <<>>)

SpecLegacy == InitLegacy /\ [][NextLegacy]_vars

(***************************************************************************)
(* Store errors: the k-th sqlite3 call of a command returns an error       *)
(* (sqlite3 not found, I/O error, locked database).                        *)
(***************************************************************************)
MaxFail == 6

Failing(k, op, path, dst, rec, meta, content, line) ==
    Invoke([NewInv(op, path, dst, rec, meta, content, BundleDir, k) EXCEPT !.line = line])

NextFault ==
    \E k \in 0..MaxFail :
        \/ Failing(k, "mkdir", Pax, <<>>, FALSE, <<>>, <<>>, <<>>)
        \/ Failing(k, "newfile", Pax, <<>>, FALSE, <<>>, <<"x">>, <<>>)
        \/ Failing(k, "append", Pax, <<>>, FALSE, <<>>, <<"y">>, <<>>)
        \/ Failing(k, "annotate", Pax, <<>>, FALSE, SideMeta, <<>>, <<"1">>)
        \/ Failing(k, "mv", Pa, Pb, FALSE, <<>>, <<>>, <<>>)
        \/ Failing(k, "rm", Pb, <<>>, TRUE, <<>>, <<>>, <<>>)

SpecFault == Init /\ [][NextFault]_vars

(***************************************************************************)
(* Concurrent use: a writer invocation advances one sqlite3 call at a      *)
(* time while another process runs cmdFSList or cmdFSCat in between.       *)
(***************************************************************************)
Begin(w, v) ==
    /\ AllIdle
    /\ \A ord \in OrdersFor(db, v) : WithinBounds(RunToEnd(db, v, ord).db)
    /\ inv' = [inv EXCEPT ![w] = v]
    /\ pre' = db
    /\ obs' = NoObs
    /\ UNCHANGED <<db, last>>

\* the next sqlite3 call of the invocation of process w
StepW(w) ==
    /\ inv[w].pc # "done"
    /\ \E ord \in (IF inv[w].pc = "mv_rows"
                   THEN SubtreeOrders(db, inv[w].pid, TrimSlash(inv[w].path))
                   ELSE {<<>>}) :
         LET s == Step(db, inv[w], ord) IN
         /\ db' = s.db
         /\ inv' = [inv EXCEPT ![w] = s.inv]
         /\ last' = IF s.inv.pc = "done" THEN Summary(s.inv) ELSE last
    /\ UNCHANGED <<pre, obs>>

ReadList(base) ==
    /\ ~AllIdle
    /\ obs = NoObs
    /\ obs' = [kind |-> "ls", path |-> base, view |-> List(db, base)]
    /\ UNCHANGED <<db, inv, last, pre>>

ReadCat(path) ==
    /\ ~AllIdle
    /\ obs = NoObs
    /\ obs' = [kind |-> "cat", path |-> path, view |-> Cat(db, path)]
    /\ UNCHANGED <<db, inv, last, pre>>

NextConc ==
    \/ Begin(1, NewInv("mkdir", Pax, <<>>, FALSE, <<>>, <<>>, BundleDir, 0))
    \/ Begin(1, NewInv("newfile", Pax, <<>>, FALSE, TagMeta, <<"x">>, BundleDir, 0))
    \/ \E q \in {Pb, Pab} : Begin(1, NewInv("mv", Pa, q, FALSE, <<>>, <<>>, BundleDir, 0))
    \/ \E p \in {Pa, Pb} : Begin(1, NewInv("rm", p, <<>>, TRUE, <<>>, <<>>, BundleDir, 0))
    \/ StepW(1)
    \/ \E b \in {<<".">>, Pa, Pb} : ReadList(b)
    \/ \E p \in {Pax, Pbx} : ReadCat(p)

SpecConc == Init /\ [][NextConc]_vars

CtlMeta == <<":", ":", "c">>
Metas == {<<>>, NoteMeta, TagMeta, CtlMeta}

\* metadata on a directory, on a directory below it and on a file below it
NextMeta ==
    \/ \E p \in {Pa, Pax}, m \in Metas : cmdFSMakeDir(p, m)
    \/ \E m \in Metas : cmdFSNewFile(Pax, m, <<>>)
    \/ cmdFSRemove(Pax, FALSE)

SpecMeta == Init /\ [][NextMeta]_vars

\* spellings of the path a/x, and a path that climbs above the root
Spellings == { Pax, <<"a", "/", "/", "x">>, <<"a", "/", ".", "/", "x">>,
               <<"/", "a", "/", "x", "/">> }
AboveRoot == <<".", ".", "/", "a">>

\* the same path written in several ways
NextPaths ==
    \/ \E p \in Spellings \cup {AboveRoot} : cmdFSMakeDir(p, <<>>)
    \/ \E p \in Spellings \cup {AboveRoot} : cmdFSNewFile(p, <<>>, <<>>)
    \/ \E p \in Spellings \cup {Pa} : cmdFSRemove(p, TRUE)

SpecPaths == Init /\ [][NextPaths]_vars

Pf == <<"f">>

\* a command run in working directory cwd on the legacy store
InProject(cwd, v) == Invoke([v EXCEPT !.root = ProjRoot(LegacyDB, cwd)])

\* two projects of one legacy store using the same paths
NextScope ==
    \E cwd \in Cwds :
        \/ InProject(cwd, NewInv("mkdir", Pa, <<>>, FALSE, <<>>, <<>>, <<>>, 0))
        \/ InProject(cwd, NewInv("newfile", Pf, <<>>, FALSE, <<>>, <<"x">>, <<>>, 0))
        \/ InProject(cwd, [NewInv("annotate", Pf, <<>>, FALSE, SideMeta, <<>>, <<>>, 0)
                              EXCEPT !.line = <<"1">>])
        \/ InProject(cwd, NewInv("mv", Pa, Pb, FALSE, <<>>, <<>>, <<>>, 0))
        \/ \E p \in {Pa, Pb, Pf} : InProject(cwd, NewInv("rm", p, <<>>, TRUE, <<>>, <<>>, <<>>, 0))

SpecScope == InitLegacy /\ [][NextScope]_vars

(***************************************************************************)
(* Two command processes on one store, each at its own sqlite3 call.       *)
(***************************************************************************)
\* invocations under way that will add a Line, and those that will add a Tag
PendingLines ==
    Cardinality({u \in Procs : inv[u].pc # "done" /\ inv[u].op \in {"append", "annotate"}})
PendingTags ==
    Cardinality({u \in Procs : inv[u].pc # "done" /\ inv[u].meta.tags # <<>>})

\* process w starts the command v while the other process may be running
BeginC(w, v) ==
    /\ inv[w].pc = "done"
    /\ IF v.op \in {"append", "annotate"}
       THEN Cardinality(db.file_lines) + PendingLines < MaxLines
       ELSE TRUE
    /\ IF v.meta.tags # <<>>
       THEN Cardinality(db.file_tags) + PendingTags < MaxTags
       ELSE TRUE
    /\ inv' = [inv EXCEPT ![w] = v]
    /\ UNCHANGED <<db, last, pre, obs>>

\* two appends to one file
NextAppend ==
    \/ \E c \in {<<>>, <<"x">>} : cmdFSNewFile(Pf, <<>>, c)
    \/ cmdFSRemove(Pf, FALSE)
    \/ BeginC(1, NewInv("append", Pf, <<>>, FALSE, <<>>, <<"y">>, BundleDir, 0))
    \/ BeginC(2, NewInv("append", Pf, <<>>, FALSE, <<>>, <<"z">>, BundleDir, 0))
    \/ \E w \in Procs : StepW(w)

SpecAppend == Init /\ [][NextAppend]_vars

\* append and line annotation of a file while it is removed
NextRace ==
    \/ cmdFSNewFile(Pf, <<>>, <<"x">>)
    \/ BeginC(1, NewInv("append", Pf, <<>>, FALSE, <<>>, <<"y">>, BundleDir, 0))
    \/ BeginC(1, [NewInv("annotate", Pf, <<>>, FALSE, TagMeta, <<>>, BundleDir, 0)
                     EXCEPT !.line = <<"1">>])
    \/ BeginC(2, NewInv("rm", Pf, <<>>, FALSE, <<>>, <<>>, BundleDir, 0))
    \/ \E w \in Procs : StepW(w)

SpecRace == Init /\ [][NextRace]_vars

\* paths that differ in letter case, and paths with the LIKE wildcard "_"
PAx == <<"A", "/", "x">>
Pu == <<"a", "_">>
Pabx == <<"a", "b", "/", "x">>

\* move and recursive remove next to Entries with look-alike paths
NextLike ==
    \/ \E p \in {Pa, Pu, PAx, Pabx} : cmdFSMakeDir(p, <<>>)
    \/ cmdFSNewFile(PAx, <<>>, <<"x">>)
    \/ \E p \in {Pa, Pu, <<"A">>, Pab} : cmdFSRemove(p, TRUE)
    \/ \E p \in {Pa, Pu} : cmdFSMove(p, Pb)

SpecLike == Init /\ [][NextLike]_vars

(***************************************************************************)
(* The metadata parser on its own: every string over the marker characters *)
(* up to MaxMetaLen.                                                       *)
(***************************************************************************)
MetaChars == {"/", "@", ":", " ", ",", "t"}

MetaStrings == UNION {[1..n -> MetaChars] : n \in 0..MaxMetaLen}

InitParse ==
    /\ db = [projects |-> {[id |-> 1, root |-> BundleDir]}, files |-> {},
             file_tags |-> {}, file_lines |-> {}]
    /\ inv = [w \in Procs |-> Idle]
    /\ last = Summary(Idle)
    /\ pre = db
    /\ \E s \in MetaStrings : obs = [kind |-> "arg", path |-> s, view |-> NoMeta]

\* tags, note, aicom := parseMeta(meta)
ParseArg ==
    /\ obs.kind = "arg"
    /\ obs' = [kind |-> "parsed", path |-> obs.path, view |-> parseMeta(obs.path)]
    /\ UNCHANGED <<db, inv, last, pre>>

SpecParse == InitParse /\ [][ParseArg]_vars

(***************************************************************************)
(* Notions the properties are stated in.                                   *)
(***************************************************************************)
\* path is p or lies below p (exact comparison of characters)
InSubtree(path, p) == IF path = p THEN TRUE ELSE HasPrefix(path, p \o <<"/">>)

\* the strict path-prefixes of a stored path
StrictPrefixes(path) ==
    LET c == Split(path, "/") IN {Join(SubSeq(c, 1, k), "/") : k \in 1..(Len(c) - 1)}

HasEntry(d, path, type) == \E e \in d.files : e.path = path /\ e.type = type

\* Entries, Lines and Tags of two stores are the same
SameContent(d1, d2) ==
    /\ d1.files = d2.files
    /\ d1.file_lines = d2.file_lines
    /\ d1.file_tags = d2.file_tags

SubtreeIds(d, p) == {e.id : e \in {q \in d.files : InSubtree(q.path, p)}}

LastPath == TrimSlash(last.path)
LastDst == TrimSlash(last.dst)

\* the id of the file Entry at path (0 when there is none)
FileAt(d, path) ==
    IF HasEntry(d, path, "file")
    THEN (CHOOSE e \in d.files : e.path = path /\ e.type = "file").id
    ELSE 0

LinesOf(d, fid) == {l \in d.file_lines : l.file_id = fid}

\* the line number an argument --line N names
LastLine == IF last.line = <<"1">> THEN 1 ELSE IF last.line = <<"3">> THEN 3 ELSE 0

EndsWith(s, t) == Len(t) <= Len(s) /\ SubSeq(s, Len(s) - Len(t) + 1, Len(s)) = t

\* list(p) of the specification: the Entry at p and every Entry below p + "/"
ListedBySpec(d, base) ==
    LET t == TrimSlash(base) IN
    {<<e.path, e.name, e.type>> :
        e \in {q \in d.files : IF t = <<".">> \/ t = <<>> THEN TRUE ELSE InSubtree(q.path, t)}}

(***************************************************************************)
(* Properties.                                                             *)
(***************************************************************************)

\* C1: in every reachable state every strict path-prefix of every Entry's
\* path exists as a directory Entry of the same project.
C1_AncestorsExist ==
    \A r \in db.files : \A q \in StrictPrefixes(r.path) :
        \E e \in db.files : e.project_id = r.project_id /\ e.path = q /\ e.type = "dir"

\* C2: no two Entries of one project have the same path.
C2_UniquePaths ==
    \A r1 \in db.files : \A r2 \in db.files :
        (r1.project_id = r2.project_id /\ r1.path = r2.path) => r1 = r2

\* C2 witness: a move onto an occupied path was attempted and rejected.
C2_Witness ==
    /\ last.op = "mv"
    /\ last.res = "constraint"
    /\ \E e \in db.files : e.path = LastDst
    /\ \E e \in db.files : e.path = LastPath

\* C3: make_directory(p) fails, creating no Entry and changing no metadata,
\* whenever p or a strict prefix of p exists as a file Entry.
C3_MkdirOnFileFails ==
    (/\ last.op = "mkdir"
     /\ \E q \in StrictPrefixes(LastPath) \cup {LastPath} : HasEntry(pre, q, "file"))
    => (last.res # "ok" /\ SameContent(pre, db))

\* C4: new_file(p, ...) fails whenever p exists as a directory Entry, and then
\* adds no Line, no Tag and changes no Entry.
C4_NewFileOnDirFails ==
    (last.op = "newfile" /\ HasEntry(pre, LastPath, "dir"))
    => (last.res # "ok" /\ SameContent(pre, db))

\* C5: move of a directory src to a destination with no Entry at or below it
\* ends with exactly one Entry dst + remainder (same kind, leaf name = last
\* segment) for each Entry of the subtree, and with no Entry at or below src.
C5_DirMoveExact ==
    (/\ last.op = "mv"
     /\ HasEntry(pre, LastPath, "dir")
     /\ ~\E e \in pre.files : InSubtree(e.path, LastDst))
    => (/\ \A r \in {q \in pre.files : InSubtree(q.path, LastPath)} :
              Cardinality({e \in db.files :
                              /\ e.path = LastDst \o DropFirst(r.path, Len(LastPath))
                              /\ e.type = r.type
                              /\ e.name = Base(e.path)}) = 1
        /\ ~\E e \in db.files : InSubtree(e.path, LastPath))

\* C6: a recursive move or recursive remove that returns an error leaves the
\* Entries, Lines and Tags exactly as they were before it started.
C6_AllOrNothing ==
    (/\ last.op \in {"mv", "rm"}
     /\ last.op = "rm" => last.rec
     /\ HasEntry(pre, LastPath, "dir")
     /\ last.res # "ok")
    => SameContent(pre, db)

\* the invocation changes several rows: a multi-segment make_directory, a
\* directory move or a recursive remove of a directory
MultiRowOp(v, d) ==
    IF v.op = "mkdir" THEN Len(Split(TrimSlash(v.path), "/")) > 1
    ELSE IF v.op = "mv" THEN HasEntry(d, TrimSlash(v.path), "dir")
    ELSE IF v.op = "rm" THEN v.rec /\ HasEntry(d, TrimSlash(v.path), "dir")
    ELSE FALSE

View(d, o) == IF o.kind = "ls" THEN List(d, o.path) ELSE Cat(d, o.path)

\* C7: what a concurrent list or read returned while a multi-row operation
\* was running is what it returns on the state before the operation or on the
\* state after all of its statements.
C7_ReaderSeesNoPartialState ==
    (obs.kind # "none" /\ MultiRowOp(inv[1], pre))
    => \/ obs.view = View(pre, obs)
       \/ \E ord \in OrdersFor(db, inv[1]) : obs.view = View(RunToEnd(db, inv[1], ord).db, obs)

\* C8: a successful remove(p, recursive) of a directory p leaves no Entry at
\* or below p and no Line or Tag owned by an Entry that was at or below p.
C8_RecursiveRemoveDeletesSubtree ==
    (last.op = "rm" /\ last.rec /\ last.res = "ok" /\ HasEntry(pre, LastPath, "dir"))
    => (/\ ~\E e \in db.files : InSubtree(e.path, LastPath)
        /\ ~\E l \in db.file_lines : l.file_id \in SubtreeIds(pre, LastPath)
        /\ ~\E t \in db.file_tags : t.file_id \in SubtreeIds(pre, LastPath))

\* C8 witness: the removed directory held a file with a Line and a Tag.
C8_Witness ==
    /\ last.op = "rm" /\ last.rec /\ last.res = "ok"
    /\ HasEntry(pre, LastPath, "dir")
    /\ \E e \in pre.files :
          /\ e.path # LastPath /\ InSubtree(e.path, LastPath)
          /\ \E l \in pre.file_lines : l.file_id = e.id
          /\ \E t \in pre.file_tags : t.file_id = e.id
    /\ db.files = {}

\* C9: remove(p, recursive=false) of a directory fails and leaves every
\* Entry, Line and Tag unchanged.
C9_PlainRemoveOfDirRefused ==
    (last.op = "rm" /\ ~last.rec /\ HasEntry(pre, LastPath, "dir"))
    => (last.res # "ok" /\ SameContent(pre, db))

\* C9 witness: a non-recursive remove of a directory with a child was refused.
C9_Witness ==
    /\ last.op = "rm" /\ ~last.rec /\ last.res = "isdir"
    /\ HasEntry(db, LastPath, "dir")
    /\ \E e \in db.files : e.path # LastPath /\ InSubtree(e.path, LastPath)

\* C10: new_file(p, content c) on a path with no Entry makes read(p) return
\* [c], and every successful append(p, t) makes read(p) return what it
\* returned before followed by t; so read returns [c, t1, ..., tk].
C10_ReadReturnsContentThenAppends ==
    /\ (/\ last.op = "newfile" /\ last.res = "ok" /\ last.content # <<>>
        /\ ~\E e \in pre.files : e.path = LastPath)
       => Cat(db, last.path) = [err |-> FALSE, lines |-> <<last.content>>]
    /\ (last.op = "append" /\ last.res = "ok")
       => (/\ ~Cat(pre, last.path).err
           /\ Cat(db, last.path) =
                [err |-> FALSE, lines |-> Append(Cat(pre, last.path).lines, last.content)])

\* C10 witness: a file created with content x was appended to twice.
C10_Witness ==
    /\ last.op = "append" /\ last.res = "ok"
    /\ Cat(db, last.path).lines = << <<"x">>, <<"y">>, <<"z">> >>

C12_MkdirTwice ==
    (/\ last.op = "mkdir" /\ last.meta = NoMeta
     /\ ~\E q \in StrictPrefixes(LastPath) \cup {LastPath} : HasEntry(pre, q, "file"))
    => (/\ last.res = "ok"
        /\ \A q \in StrictPrefixes(LastPath) \cup {LastPath} :
              /\ Cardinality({e \in db.files : e.path = q}) = 1
              /\ HasEntry(db, q, "dir")
        /\ (\A q \in StrictPrefixes(LastPath) \cup {LastPath} : HasEntry(pre, q, "dir"))
              => SameContent(pre, db)
        /\ LET again == RunToEnd(db, NewInv("mkdir", last.path, <<>>, FALSE, <<>>, <<>>,
                                            BundleDir, 0), <<>>)
           IN  again.inv.res = "ok" /\ SameContent(again.db, db))

\* C12 witness: make_directory("a/x") was called when a and a/x were
\* directories already.
C12_Witness ==
    /\ last.op = "mkdir" /\ last.res = "ok" /\ LastPath = Pax
    /\ HasEntry(pre, Pa, "dir") /\ HasEntry(pre, Pax, "dir")
    /\ SameContent(pre, db)

\* C13: new_file(p, content) without metadata on a path that is a file Entry
\* returns success and leaves every Entry and every Line as it was.
C13_NewFileOnFileIsNoOp ==
    (last.op = "newfile" /\ last.meta = NoMeta /\ HasEntry(pre, LastPath, "file"))
    => (/\ last.res = "ok"
        /\ db.files = pre.files
        /\ db.file_lines = pre.file_lines)

\* C14: a successful annotate(p, line n, side note) leaves every Entry (so
\* the file-level note of p) and every Line other than line n of p as it
\* was, and line n of p has the note as side note and its content and
\* control field as before (empty content when the Line is new).
C14_AnnotateLineOnly ==
    (/\ last.op = "annotate" /\ last.line # <<>> /\ last.res = "ok"
     /\ last.meta.note # <<>>)
    => LET fid == FileAt(pre, LastPath)
           other(l) == l.file_id # fid \/ l.lineno # LastLine
           old == {l \in pre.file_lines : ~other(l)}
       IN  /\ fid # 0
           /\ db.files = pre.files
           /\ {l \in db.file_lines : other(l)} = {l \in pre.file_lines : other(l)}
           /\ {l \in db.file_lines : ~other(l)} =
                 IF old = {}
                 THEN {[file_id |-> fid, lineno |-> LastLine, content |-> <<>>,
                        side |-> last.meta.note, aicom |-> NULL]}
                 ELSE {[l EXCEPT !.side = last.meta.note] : l \in old}

\* C14 witness: line 1 of a file that has a file-level note and a second
\* Line got a side note.
C14_Witness ==
    /\ last.op = "annotate" /\ last.res = "ok" /\ last.line = <<"1">>
    /\ last.meta.note = <<"s">>
    /\ \E e \in db.files : e.path = LastPath /\ e.type = "file" /\ e.note = <<"n">>
    /\ Cardinality(LinesOf(db, FileAt(db, LastPath))) >= 2
    /\ \E l \in LinesOf(pre, FileAt(pre, LastPath)) : l.lineno = 1 /\ l.side = NULL
    /\ \E l \in LinesOf(db, FileAt(db, LastPath)) : l.lineno = 1 /\ l.side = <<"s">>

\* C15: annotate(p, metadata) with no line, on a file p, puts a parsed note
\* into the file-level note of p and attaches each parsed tag to p.
C15_AnnotateEntry ==
    (last.op = "annotate" /\ last.line = <<>> /\ HasEntry(pre, LastPath, "file"))
    => (/\ last.meta.note # <<>>
           => \E e \in db.files : /\ e.path = LastPath
                                  /\ e.note # NULL
                                  /\ EndsWith(e.note, last.meta.note)
        /\ \A i \in 1..Len(last.meta.tags) :
              \E t \in db.file_tags \ pre.file_tags :
                 t.file_id = FileAt(pre, LastPath) /\ t.tag = last.meta.tags[i])

\* C16: list(p) returns the Entry at p, when there is one, and every Entry
\* whose path starts with p + "/"; list of the root returns every Entry.
C16_ListSubtree ==
    (last.op = "ls" /\ last.res = "ok") => List(db, last.path) = ListedBySpec(db, last.path)

\* C17: list(p) of a path other than the root at which no Entry exists
\* fails.
C17_ListNotFound ==
    (/\ last.op = "ls"
     /\ LastPath # <<".">> /\ LastPath # <<>>
     /\ ~\E e \in pre.files : e.path = LastPath)
    => last.res # "ok"

C19_OneProjectRow ==
    /\ Cardinality(db.projects) = 1
    /\ (last.op = "ls" /\ last.res = "ok" /\ LastPath = <<".">>)
       => ListRows(db, last.root, last.path) = {<<e.path, e.name, e.type>> : e \in db.files}

\* C20: a command one of whose sqlite3 calls returned an error returns that
\* error, and no later call of the command changes the store.
C20_NoSwallowedError ==
    last.failed => (last.res = "store" /\ ~last.wrote)

\* C21: every Line and every Tag belongs to an Entry that exists, and the
\* Entry a Line belongs to is a file.
C21_OwnersExist ==
    /\ \A l \in db.file_lines : \E e \in db.files : e.id = l.file_id /\ e.type = "file"
    /\ \A t \in db.file_tags : \E e \in db.files : e.id = t.file_id

MetaAt(d, path) ==
    IF \E e \in d.files : e.path = path
    THEN LET e == CHOOSE x \in d.files : x.path = path IN
         [note |-> e.note, aicom |-> e.aicom,
          tags |-> {t.tag : t \in {u \in d.file_tags : u.file_id = e.id}}]
    ELSE [note |-> NULL, aicom |-> NULL, tags |-> {}]

\* C22: make_directory and new_file with metadata leave the note, the control
\* field and the tags of every ancestor of the path as they were; an ancestor
\* the call creates has none.
C22_AncestorsKeepMeta ==
    (last.op \in {"mkdir", "newfile"})
    => \A q \in StrictPrefixes(LastPath) : MetaAt(db, q) = MetaAt(pre, q)

\* C22 witness: new_file a/x with a note created the directory a without a
\* note and the file a/x with it.
C22_Witness ==
    /\ last.op = "newfile" /\ last.res = "ok" /\ LastPath = Pax
    /\ last.meta.note = <<"n">>
    /\ ~\E e \in pre.files : e.path = Pa
    /\ \E e \in db.files : e.path = Pa /\ e.type = "dir" /\ e.note = NULL
    /\ \E e \in db.files : e.path = Pax /\ e.type = "file" /\ e.note = <<"n">>

\* C28: make_directory whose metadata is only a side note leaves the control
\* field of the target Entry as it was, and whose metadata is only a control
\* payload leaves its note as it was.
C28_OtherFieldUnchanged ==
    (last.op = "mkdir" /\ last.res = "ok" /\ last.meta.tags = <<>>)
    => /\ (last.meta.note # <<>> /\ last.meta.aicom = <<>>)
            => MetaAt(db, LastPath).aicom = MetaAt(pre, LastPath).aicom
       /\ (last.meta.aicom # <<>> /\ last.meta.note = <<>>)
            => MetaAt(db, LastPath).note = MetaAt(pre, LastPath).note

\* C24: no stored path has an empty, "." or ".." segment, so every spelling
\* of a path names the one Entry stored under its normal form; an operation
\* on a path whose ".." climbs above the root fails.
C24_PathsNormalized ==
    /\ \A e \in db.files :
          LET c == Split(e.path, "/") IN
          \A i \in 1..Len(c) : c[i] \notin {<<>>, <<".">>, <<".", ".">>}
    /\ (last.op # "none" /\ last.path = AboveRoot) => last.res # "ok"

\* Entries of the store d that belong to a project other than pid, each with
\* its Lines and Tags
OthersOf(d, pid) ==
    {[entry |-> e,
      lines |-> {l \in d.file_lines : l.file_id = e.id},
      tags |-> {t \in d.file_tags : t.file_id = e.id}] :
        e \in {q \in d.files : q.project_id # pid}}

\* C25: an operation run for one project leaves every Entry, Line and Tag of
\* every other project of the store as it was, and list and read in a project
\* return only what that project owns, also when both projects use the same
\* paths.
C25_ProjectScoped ==
    /\ last.op # "none"
          => OthersOf(db, SelectProjectId(db, last.root))
               = OthersOf(pre, SelectProjectId(db, last.root))
    /\ \A root \in Cwds :
          LET pid == SelectProjectId(db, root)
              own == {e \in db.files : e.project_id = pid}
          IN  /\ Cardinality(ListRows(db, root, <<".">>)) <= Cardinality(own)
              /\ \A r \in ListRows(db, root, <<".">>) : \E e \in own : e.path = r[1]
              /\ IF \E e \in own : e.path = Pf /\ e.type = "file"
                 THEN LET f == CHOOSE e \in own : e.path = Pf /\ e.type = "file"
                          c == CatRows(db, root, Pf)
                      IN  /\ ~c.err
                          /\ Len(c.lines) = Cardinality(LinesOf(db, f.id))
                          /\ \A i \in 1..Len(c.lines) :
                                \E l \in LinesOf(db, f.id) : l.content = c.lines[i]
                 ELSE CatRows(db, root, Pf).err

\* C25 witness: both projects hold the file f, one of them with a Line note,
\* and the last operation removed the file f of the other project.
C25_Witness ==
    /\ last.op = "rm" /\ last.res = "ok" /\ LastPath = Pf
    /\ Cardinality({e \in pre.files : e.path = Pf /\ e.type = "file"}) = 2
    /\ Cardinality({e \in db.files : e.path = Pf /\ e.type = "file"}) = 1
    /\ \E e \in db.files : /\ e.path = Pf
                             /\ e.project_id # SelectProjectId(db, last.root)
                             /\ \E l \in LinesOf(db, e.id) : l.side = <<"s">>

RECURSIVE Concat(_)
Concat(ss) == IF ss = <<>> THEN <<>> ELSE Head(ss) \o Concat(Tail(ss))

IsSeparator(c) == c \in {" ", ","}
IsLetter(c) == ~IsSeparator(c)
Letters(s) == SelectSeq(s, IsLetter)

\* t is a run of consecutive characters of s
IsInfix(t, s) == \E i \in 0..(Len(s) - Len(t)) : SubSeq(s, i + 1, i + Len(t)) = t

C27_OnlyNamedSubtree ==
    (/\ last.res = "ok"
     /\ \/ last.op = "mv"
        \/ last.op = "rm" /\ last.rec)
    => \A e \in pre.files :
          ~InSubtree(e.path, LastPath)
          => /\ e \in db.files
             /\ LinesOf(db, e.id) = LinesOf(pre, e.id)
             /\ {t \in db.file_tags : t.file_id = e.id} = {t \in pre.file_tags : t.file_id = e.id}

\* C29: the statement of a successful append adds one Line that carries the
\* appended text under a line number no Line of the file had, and removes or
\* changes no Line, whatever the other process has done in between: two
\* concurrent appends never share a line number and none overwrites a Line.
C29_AppendsKeepLines ==
    [][\A w \in Procs :
          (inv[w].pc = "app_ins" /\ inv'[w].pc = "done" /\ inv'[w].res = "ok")
          => /\ db.file_lines \subseteq db'.file_lines
             /\ Cardinality(db'.file_lines) = Cardinality(db.file_lines) + 1
             /\ \A l \in db'.file_lines \ db.file_lines :
                   /\ l.file_id = inv[w].fid
                   /\ l.content = inv[w].content
                   /\ \A m \in db.file_lines : m.file_id = l.file_id => m.lineno # l.lineno]_vars

\* C29 witness: the second append has looked the file up and has its insert
\* still to run, while the first append has stored its text as Line 2 of the
\* same file.
C29_Witness ==
    /\ inv[1].op = "append" /\ inv[1].pc = "done" /\ inv[1].res = "ok"
    /\ inv[2].op = "append" /\ inv[2].pc = "app_ins"
    /\ inv[1].fid = inv[2].fid
    /\ {<<l.lineno, l.content>> : l \in LinesOf(db, inv[1].fid)}
          = {<<1, <<"x">> >>, <<2, <<"y">> >>}

\* C30: when append or line annotation ran concurrently with the removal of
\* the same file and both have returned, every Line and every Tag is owned by
\* an existing Entry, and a file created afterwards shows only the content it
\* was created with.
C30_NoOrphanAfterRace ==
    AllIdle
    => /\ \A l \in db.file_lines : \E e \in db.files : e.id = l.file_id
       /\ \A t \in db.file_tags : \E e \in db.files : e.id = t.file_id
       /\ (last.op = "newfile" /\ last.res = "ok" /\ ~HasEntry(pre, LastPath, "file"))
            => \A l \in LinesOf(db, FileAt(db, LastPath)) :
                  l.lineno = 1 /\ l.content = last.content

====
